---- MODULE Spec2Model ----
(***************************************************************************)
(* Model of search_service.proxy: the GCP Data Catalog search proxy        *)
(* (query building, paged search, entry normalisation, the four search     *)
(* operations) and the lazily built singleton proxy client.                *)
(*                                                                         *)
(* A Python str is a sequence of one-character strings, so that split,     *)
(* strip, replace and concatenation are computed character by character.   *)
(* A raised exception is a record [status |-> "raised", exc |-> <name>].   *)
(***************************************************************************)
EXTENDS Integers, Sequences, FiniteSets, TLC

VARIABLES
    pc,             \* position of the search call: "call" or "done"
    op,             \* the operation called
    args,           \* its arguments
    page_size,      \* self.page_size of the proxy
    stream,         \* the pages the remote search_catalog returns
    sent,           \* the queries handed to search_catalog so far
    ret,            \* outcome of the call
    _proxy_client,  \* module global _proxy_client (None or the client)
    lock,           \* holder of _proxy_client_lock (NoThread when free)
    tpc,            \* position of each thread inside get_proxy_client
    tret,           \* what each thread's last finished call returned
    calls,          \* calls of get_proxy_client started by each thread
    constructed     \* number of proxy clients constructed so far

vars == <<pc, op, args, page_size, stream, sent, ret,
          _proxy_client, lock, tpc, tret, calls, constructed>>

searchVars == <<pc, op, args, page_size, stream, sent, ret>>
proxyVars == <<_proxy_client, lock, tpc, tret, calls, constructed>>

(***************************************************************************)
(* Python string primitives                                                *)
(***************************************************************************)

RECURSIVE SplitAcc(_, _, _, _, _)
SplitAcc(s, sep, i, cur, acc) ==
    IF i > Len(s) THEN Append(acc, cur)
    ELSE IF s[i] = sep THEN SplitAcc(s, sep, i + 1, <<>>, Append(acc, cur))
    ELSE SplitAcc(s, sep, i + 1, Append(cur, s[i]), acc)

\* str.split(sep) for a one-character separator: one token more than separators
Split(s, sep) == SplitAcc(s, sep, 1, <<>>, <<>>)

RECURSIVE LStrip(_, _)
LStrip(s, chars) ==
    IF s # <<>> /\ Head(s) \in chars THEN LStrip(Tail(s), chars) ELSE s

RECURSIVE RStrip(_, _)
RStrip(s, chars) ==
    IF s # <<>> /\ s[Len(s)] \in chars THEN RStrip(SubSeq(s, 1, Len(s) - 1), chars) ELSE s

\* str.strip(chars): drops every leading and trailing character that is in chars
Strip(s, chars) == RStrip(LStrip(s, chars), chars)

StartsWithAt(s, i, t) ==
    /\ i + Len(t) - 1 <= Len(s)
    /\ \A k \in 1..Len(t) : s[i + k - 1] = t[k]

RECURSIVE RemoveAllFrom(_, _, _)
RemoveAllFrom(s, i, old) ==
    IF i > Len(s) THEN <<>>
    ELSE IF StartsWithAt(s, i, old) THEN RemoveAllFrom(s, i + Len(old), old)
    ELSE <<s[i]>> \o RemoveAllFrom(s, i + 1, old)

\* str.replace(old, ''): every non-overlapping occurrence removed, left to right
RemoveAll(s, old) == IF old = <<>> THEN s ELSE RemoveAllFrom(s, 1, old)

EndsWith(s, t) == Len(t) <= Len(s) /\ SubSeq(s, Len(s) - Len(t) + 1, Len(s)) = t

RECURSIVE Concat(_)
Concat(ss) == IF ss = <<>> THEN <<>> ELSE Head(ss) \o Concat(Tail(ss))

(***************************************************************************)
(* String literals of the source                                           *)
(***************************************************************************)

S_AND == <<" ", "A", "N", "D", " ">>
S_OR == <<" ", "O", "R", " ">>
S_type == <<"t", "y", "p", "e">>
S_system == <<"s", "y", "s", "t", "e", "m">>
S_label == <<"l", "a", "b", "e", "l">>
S_name == <<"n", "a", "m", "e">>
S_description == <<"d", "e", "s", "c", "r", "i", "p", "t", "i", "o", "n">>
S_column == <<"c", "o", "l", "u", "m", "n">>
S_tag == <<"t", "a", "g">>
S_table == <<"t", "a", "b", "l", "e">>
S_workbook == <<"w", "o", "r", "k", "b", "o", "o", "k">>
S_user == <<"u", "s", "e", "r">>
S_bigquery == <<"b", "i", "g", "q", "u", "e", "r", "y">>

(***************************************************************************)
(* Filter maps: a dict is the sequence of its items in insertion order.    *)
(* A value is [kind |-> "str", v |-> <chars>] or [kind |-> "list",         *)
(* v |-> <strings>].                                                       *)
(***************************************************************************)

StrVal(s) == [kind |-> "str", v |-> s]
ListVal(l) == [kind |-> "list", v |-> l]

HasKey(d, k) == \E i \in 1..Len(d) : d[i].field = k

\* d[k] = v of a Python dict: replaced in place when k is present, else appended
SetItem(d, k, v) ==
    IF HasKey(d, k)
    THEN [i \in 1..Len(d) |-> IF d[i].field = k THEN [field |-> k, values |-> v] ELSE d[i]]
    ELSE Append(d, [field |-> k, values |-> v])

\* a separator table that lacks the 'system' entry
separatorTypeOnly(field) == IF field = S_type THEN <<"=">> ELSE <<":">>

\* separators.get(field, ':')
separator(field) == IF field = S_type \/ field = S_system THEN <<"=">> ELSE <<":">>

RECURSIVE Disjuncts(_, _, _)
\* the inner loop over a list value: _query += f'{field}{separator}{value} OR '
Disjuncts(field, sepr, values) ==
    IF values = <<>> THEN <<>>
    ELSE field \o sepr \o Head(values) \o S_OR \o Disjuncts(field, sepr, Tail(values))

\* _query.strip(" OR "): the argument is a set of characters
StripOr(q) == Strip(q, {" ", "O", "R"})

ListClause(field, sepr, values) ==
    LET _query == Disjuncts(field, sepr, values)
    IN  IF _query # <<>> THEN S_AND \o <<"(">> \o StripOr(_query) \o <<")">> ELSE <<>>

RECURSIVE FilterLoop(_, _, _)
\* the loop over filters.items(), from item i on, with the query built so far
FilterLoop(filters, i, query) ==
    IF i > Len(filters) THEN query
    ELSE LET field == filters[i].field
             values == filters[i].values
             sepr == separator(field)
         IN  IF field = S_label
             THEN IF values.kind = "str"
                  THEN LET parts == Split(values.v, ":")
                       IN  IF Len(parts) = 1
                           THEN FilterLoop(filters, i + 1,
                                    query \o S_AND \o field \o <<".">> \o <<"*">> \o sepr \o parts[1])
                           ELSE IF Len(parts) = 2
                           THEN FilterLoop(filters, i + 1,
                                    query \o S_AND \o field \o <<".">> \o parts[1] \o sepr \o parts[2])
                           ELSE query     \* break: the loop ends here
                  ELSE FilterLoop(filters, i + 1, query)
             ELSE IF values.kind = "str"
             THEN FilterLoop(filters, i + 1, query \o S_AND \o field \o sepr \o values.v)
             ELSE FilterLoop(filters, i + 1, query \o ListClause(field, sepr, values.v))

\* the query _basic_search hands to search_catalog
BuildQuery(query_term, entry_type, additional_filters) ==
    FilterLoop(SetItem(additional_filters, S_type, StrVal(entry_type)), 1, query_term)

(***************************************************************************)
(* Entry normalisation                                                     *)
(*                                                                         *)
(* A raw entry is a record: linked_resource, relative_resource_name and    *)
(* user_specified_system are strings, integrated_system is the enum's      *)
(* number, full_name is the name of the entry get_entry returns for it and *)
(* tags is what list_tags returns for that name: a sequence of             *)
(* [template_display_name, fields], fields a function from key to          *)
(* string_value.                                                           *)
(***************************************************************************)

Returned(v) == [status |-> "returned", exc |-> "", value |-> v]
Raised(e) == [status |-> "raised", exc |-> e, value |-> <<>>]

None == "None"

\* entry.user_specified_system or entry.integrated_system
DeclaredSystem(entry) ==
    IF entry.user_specified_system # <<>>
    THEN [isint |-> FALSE, s |-> entry.user_specified_system, n |-> 0]
    ELSE [isint |-> TRUE, s |-> <<>>, n |-> entry.integrated_system]

\* the branch on isinstance(_database, int): database is bound only on these paths
DatabaseBound(_database) == _database.isint => _database.n = 1

_process_table_resource(entry) ==
    LET linked_resource_parts == Split(entry.linked_resource, "/")
        relative_resource_name_parts == Split(entry.relative_resource_name, "/")
        nl == Len(linked_resource_parts)
        nr == Len(relative_resource_name_parts)
        name == linked_resource_parts[nl]
        _database == DeclaredSystem(entry)
        database == IF _database.isint THEN S_bigquery ELSE _database.s
        schema == IF _database.isint
                  THEN linked_resource_parts[nl - 2]
                  ELSE Strip(RemoveAll(relative_resource_name_parts[nr], name), {"_"})
        cluster == relative_resource_name_parts[2] \o <<"_", "_">> \o relative_resource_name_parts[4]
    IN  IF _database.isint /\ nl < 3 THEN Raised("IndexError")
        ELSE IF nr < 4 THEN Raised("IndexError")
        ELSE IF ~DatabaseBound(_database) THEN Raised("UnboundLocalError")
        ELSE Returned([kind |-> "Table",
                       database |-> database,
                       cluster |-> cluster,
                       schema |-> schema,
                       name |-> name,
                       tags |-> <<>>,
                       badges |-> <<>>,
                       last_updated_timestamp |-> None,
                       column_names |-> <<>>,
                       key |-> entry.relative_resource_name])

S_DashboardMetadata ==
    <<"D", "a", "s", "h", "b", "o", "a", "r", "d", " ",
      "M", "e", "t", "a", "d", "a", "t", "a">>

RECURSIVE MergeTags(_, _, _)
\* the loop of _get_resource_metadata: a later matching tag overwrites earlier keys
MergeTags(tags, suffix, result) ==
    IF tags = <<>> THEN result
    ELSE MergeTags(Tail(tags), suffix,
                   IF EndsWith(Head(tags).template_display_name, suffix)
                   THEN Head(tags).fields @@ result
                   ELSE result)

\* the pattern is '.*' followed by a literal suffix and '$'
_get_resource_metadata(tags, suffix) == MergeTags(tags, suffix, <<>>)

_process_dashboard_resource(entry) ==
    LET dashboard_metadata == _get_resource_metadata(entry.tags, S_DashboardMetadata)
        relative_resource_name_parts == Split(entry.full_name, "/")
    IN  IF Len(relative_resource_name_parts) < 2 THEN Raised("IndexError")
        ELSE IF "workbook_name" \notin DOMAIN dashboard_metadata THEN Raised("KeyError")
        ELSE IF "workbook_entry" \notin DOMAIN dashboard_metadata THEN Raised("KeyError")
        ELSE Returned([kind |-> "Dashboard",
                       cluster |-> relative_resource_name_parts[2],
                       group_name |-> IF "site_name" \in DOMAIN dashboard_metadata
                                      THEN dashboard_metadata["site_name"] ELSE None,
                       group_url |-> <<>>,
                       url |-> <<>>,
                       product |-> DeclaredSystem(entry),
                       name |-> dashboard_metadata["workbook_name"],
                       last_successful_run_timestamp |-> 0,
                       uri |-> dashboard_metadata["workbook_entry"]])

_process_resource(entry, entry_type) ==
    IF entry_type = S_table THEN _process_table_resource(entry)
    ELSE IF entry_type = S_workbook THEN _process_dashboard_resource(entry)
    ELSE Raised("NotImplementedError")

(***************************************************************************)
(* The remote catalog                                                      *)
(***************************************************************************)

S_tableau == <<"t", "a", "b", "l", "e", "a", "u">>
S_res == <<"p", "/", "c", "/", "l", "/", "x">>
NoTags == <<>>

\* a BigQuery table
E_bq ==
    [linked_resource |-> <<"d", "/", "s", "/", "t">>,
     relative_resource_name |-> S_res,
     user_specified_system |-> <<>>, integrated_system |-> 1,
     full_name |-> S_res, tags |-> NoTags]

\* a Pub/Sub topic: integrated system 2
E_pubsub ==
    [E_bq EXCEPT !.integrated_system = 2]

\* a workbook of a user-specified system, with its metadata tag
E_workbook ==
    [linked_resource |-> <<"w">>,
     relative_resource_name |-> S_res,
     user_specified_system |-> S_tableau, integrated_system |-> 0,
     full_name |-> S_res,
     tags |-> << [template_display_name |-> S_DashboardMetadata,
                  fields |-> [workbook_name |-> "Sales", workbook_entry |-> "uri://x"]] >>]

\* the entries of the remote catalog; a page of a result stream names them
Catalog == [bq |-> E_bq, pubsub |-> E_pubsub, workbook |-> E_workbook]

(***************************************************************************)
(* Paged search                                                            *)
(***************************************************************************)

Unbound == -1

RECURSIVE ElementLoop(_, _, _, _, _)
\* for element in page: st is the loop state, or a raised exception
ElementLoop(page, k, st, page_index, entry_type) ==
    IF k > Len(page) THEN st
    ELSE LET counted == [st EXCEPT !.current_page_count = @ + 1]
         IN  IF st.page_index_position = page_index
             THEN LET result == _process_resource(Catalog[page[k]], entry_type)
                  IN  IF result.status = "raised" THEN result
                      ELSE ElementLoop(page, k + 1,
                               [counted EXCEPT !.entries = Append(@, result.value)],
                               page_index, entry_type)
             ELSE ElementLoop(page, k + 1, counted, page_index, entry_type)

\* total_count = self.page_size: the total assigned where it is accumulated
CountPageAssigned(total_count, psize) == psize

\* total_count += self.page_size, once for every page of the stream
CountPage(total_count, psize) == total_count + psize

RECURSIVE PageLoop(_, _, _, _, _, _)
\* for page in results
PageLoop(pages, p, st, page_index, entry_type, psize) ==
    IF p > Len(pages) THEN st
    ELSE LET entered == [st EXCEPT !.current_page_count = 0,
                                   !.total_count = CountPage(@, psize)]
             after == ElementLoop(pages[p], 1, entered, page_index, entry_type)
         IN  IF after.status = "raised" THEN after
             ELSE PageLoop(pages, p + 1,
                      [after EXCEPT !.page_index_position = @ + 1],
                      page_index, entry_type, psize)

\* total_count - (self.page_size - current_page_count)
CorrectTotal(total_count, psize, current_page_count) ==
    total_count - (psize - current_page_count)

\* lines 172-194: the walk over the pages and the correction of the total
Paginate(pages, page_index, entry_type, psize) ==
    LET st0 == [status |-> "running", total_count |-> 0, page_index_position |-> 0,
                current_page_count |-> Unbound, entries |-> <<>>]
        st == PageLoop(pages, 1, st0, page_index, entry_type, psize)
    IN  IF st.status = "raised" THEN st
        ELSE IF st.current_page_count = Unbound THEN Raised("UnboundLocalError")
        ELSE Returned([total_count |-> CorrectTotal(st.total_count, psize, st.current_page_count),
                       entries |-> st.entries])

\* _basic_search: the query sent, and the outcome
_basic_search(query_term, page_index, entry_type, additional_filters, pages, psize) ==
    [query |-> BuildQuery(query_term, entry_type, additional_filters),
     outcome |-> Paginate(pages, page_index, entry_type, psize)]

(***************************************************************************)
(* The four search operations                                              *)
(***************************************************************************)

Container(kind, outcome) ==
    IF outcome.status = "raised" THEN outcome
    ELSE Returned([container |-> kind,
                   total_results |-> outcome.value.total_count,
                   results |-> outcome.value.entries])

fetch_table_search_results(query_term, page_index, pages, psize) ==
    LET r == _basic_search(query_term, page_index, S_table, <<>>, pages, psize)
    IN  [query |-> r.query, outcome |-> Container("SearchTableResult", r.outcome)]

\* the container built at line 205
UserResultContainer == "SearchTableResult"

fetch_user_search_results(query_term, page_index, pages, psize) ==
    LET r == _basic_search(query_term, page_index, S_user, <<>>, pages, psize)
    IN  [query |-> r.query, outcome |-> Container(UserResultContainer, r.outcome)]

fetch_dashboard_search_results(query_term, page_index, pages, psize) ==
    LET r == _basic_search(query_term, page_index, S_workbook, <<>>, pages, psize)
    IN  [query |-> r.query, outcome |-> Container("SearchDashboardResult", r.outcome)]

\* (search_field_name, gcp_field_name) of filter_specs, in order
filter_specs ==
    << [search |-> "table", gcp |-> S_name],
       [search |-> "description", gcp |-> S_description],
       [search |-> "column", gcp |-> S_column],
       [search |-> "tag", gcp |-> S_tag],
       [search |-> "database", gcp |-> S_system],
       [search |-> "badge", gcp |-> S_label] >>

\* truth value of a str or a list: non-empty
Truthy(values) == values.v # <<>>

RECURSIVE ForwardFilters(_, _, _)
\* the loop over filter_specs: a request filter is forwarded when present and truthy
ForwardFilters(_filters, i, filters) ==
    IF i > Len(filter_specs) THEN filters
    ELSE LET spec == filter_specs[i]
         IN  ForwardFilters(_filters, i + 1,
                 IF spec.search \in DOMAIN _filters /\ Truthy(_filters[spec.search])
                 THEN SetItem(filters, spec.gcp, _filters[spec.search])
                 ELSE filters)

\* search_request.get('filters', dict())
RequestFilters(search_request) ==
    IF search_request.has_filters THEN search_request.filters ELSE <<>>

fetch_search_results_with_filter(query_term, search_request, page_index, index, pages, psize) ==
    LET _filters == RequestFilters(search_request)
        entry_type == Split(index, "_")[1]
        filters == ForwardFilters(_filters, 1, <<>>)
        r == _basic_search(query_term, page_index, entry_type, filters, pages, psize)
    IN  [query |-> r.query, outcome |-> Container("SearchTableResult", r.outcome)]

(***************************************************************************)
(* Inputs                                                                  *)
(***************************************************************************)

MaxFilters == 2       \* filters passed to _basic_search besides 'type'
MaxListLen == 2       \* elements of a list-valued filter
MaxPages == 3         \* pages of a result stream
MaxPageSize == 2      \* self.page_size ranges over 1..MaxPageSize
MaxResourceLen == 4   \* characters of a resource name handed to the table normalizer

DEFAULT_PAGE_SIZE == 10

SeqsUpTo(S, n) == UNION {[1..k -> S] : k \in 0..n}

Terms == {<<>>, <<"q">>, <<"a", " ", "O", "R">>}

ScalarSamples ==
    {<<>>, <<"b", "q">>, <<"F", "O", "O">>, <<"a", ":", "b">>, <<"a", ":", "b", ":", "c">>}
ListElems == {<<"b", "q">>, <<"F", "O", "O">>}

FilterValues ==
    {StrVal(v) : v \in ScalarSamples} \cup {ListVal(l) : l \in SeqsUpTo(ListElems, MaxListLen)}

FilterFields == {S_name, S_system, S_label}

FieldOrders ==
    {f \in SeqsUpTo(FilterFields, MaxFilters) :
        \A i, j \in 1..Len(f) : i # j => f[i] # f[j]}

\* keyword arguments: the fields f in order, with the values v
FilterMap(f, v) == [i \in 1..Len(f) |-> [field |-> f[i], values |-> v[i]]]

\* result streams: at most n pages of at most psize entries each
Streams(E, psize, n) == SeqsUpTo(SeqsUpTo(E, psize), n)

NoRet == [status |-> "none", exc |-> "", value |-> <<>>]

MaxThreads == 2       \* threads calling get_proxy_client
MaxCalls == 2         \* calls of get_proxy_client made by one thread

NoThread == 0
NoClient == [set |-> FALSE, id |-> 0]

Threads == 1..MaxThreads

ProxyIdle ==
    /\ _proxy_client = NoClient
    /\ lock = NoThread
    /\ tpc = [t \in Threads |-> "idle"]
    /\ tret = [t \in Threads |-> [status |-> "none", value |-> NoClient]]
    /\ calls = [t \in Threads |-> 0]
    /\ constructed = 0

SearchIdle ==
    /\ pc = "done"
    /\ op = "none"
    /\ args = <<>>
    /\ page_size = DEFAULT_PAGE_SIZE
    /\ stream = <<>>
    /\ sent = <<>>
    /\ ret = NoRet

(***************************************************************************)
(* _basic_search called directly: queries                                  *)
(***************************************************************************)

InitQuery ==
    /\ pc = "call"
    /\ op = "_basic_search"
    /\ \E f \in FieldOrders : \E v \in [1..Len(f) -> FilterValues] :
          args \in [query_term : Terms, page_index : {0}, entry_type : {S_table, S_workbook},
                    additional_filters : {FilterMap(f, v)}]
    /\ page_size = DEFAULT_PAGE_SIZE
    /\ stream = << <<"bq">> >>
    /\ sent = <<>>
    /\ ret = NoRet
    /\ ProxyIdle

BasicSearch ==
    /\ pc = "call"
    /\ op = "_basic_search"
    /\ LET r == _basic_search(args.query_term, args.page_index, args.entry_type,
                              args.additional_filters, stream, page_size)
       IN  /\ sent' = Append(sent, r.query)
           /\ ret' = r.outcome
    /\ pc' = "done"
    /\ UNCHANGED <<op, args, page_size, stream>>
    /\ UNCHANGED proxyVars

SpecQuery == InitQuery /\ [][BasicSearch]_vars

(***************************************************************************)
(* _basic_search called directly: pages                                    *)
(***************************************************************************)

PageEntries == {"bq", "pubsub"}

Init ==
    /\ pc = "call"
    /\ op = "_basic_search"
    /\ page_size \in 1..MaxPageSize
    /\ stream \in Streams(PageEntries, page_size, MaxPages)
    /\ args \in [query_term : {<<"q">>}, page_index : 0..MaxPages,
                 entry_type : {S_table, S_user}, additional_filters : {<<>>}]
    /\ sent = <<>>
    /\ ret = NoRet
    /\ ProxyIdle

Next == BasicSearch

Spec == Init /\ [][Next]_vars

(***************************************************************************)
(* The table normalizer called on one entry                                *)
(***************************************************************************)

ResourceChars == {"t", "/", "_"}
ResourceNames == SeqsUpTo(ResourceChars, MaxResourceLen)

InitTable ==
    /\ pc = "call"
    /\ op = "_process_table_resource"
    /\ args \in [linked_resource : ResourceNames,
                 relative_resource_name : {<<"/", "/", "/">>, <<"/", "c", "/", "l", "/", "t", "_", "t">>,
                                           <<"/", "/", "/", "_", "t", "_", "/", "t">>},
                 user_specified_system : {<<>>, S_tableau},
                 integrated_system : 0..2,
                 full_name : {<<>>}, tags : {NoTags}]
    /\ page_size = DEFAULT_PAGE_SIZE
    /\ stream = <<>>
    /\ sent = <<>>
    /\ ret = NoRet
    /\ ProxyIdle

ProcessTableResource ==
    /\ pc = "call"
    /\ op = "_process_table_resource"
    /\ ret' = _process_table_resource(args)
    /\ pc' = "done"
    /\ UNCHANGED <<op, args, page_size, stream, sent>>
    /\ UNCHANGED proxyVars

SpecTable == InitTable /\ [][ProcessTableResource]_vars

(***************************************************************************)
(* The four search operations called by the service                        *)
(***************************************************************************)

S_table_index == S_table \o <<"_", "s", "e", "a", "r", "c", "h", "_", "i", "n", "d", "e", "x">>
S_dashboard_index ==
    <<"d", "a", "s", "h", "b", "o", "a", "r", "d">>
        \o <<"_", "s", "e", "a", "r", "c", "h", "_", "i", "n", "d", "e", "x">>

RequestKeys == {"table", "name", "database", "badge"}
RequestValues ==
    {StrVal(<<>>), StrVal(<<"b", "q">>), StrVal(<<"a", ":", "b", ":", "c">>),
     ListVal(<<>>), ListVal(<<<<"b", "q">>>>)}

\* the 'filters' dict of a request: any of the keys, each with a str or a list
RequestFilterMaps == UNION {[K -> RequestValues] : K \in SUBSET RequestKeys}

SearchRequests ==
    {[has_filters |-> FALSE, filters |-> <<>>]}
        \cup {[has_filters |-> TRUE, filters |-> f] : f \in RequestFilterMaps}

NoRequest == [has_filters |-> FALSE, filters |-> <<>>]

FacadeStreams == Streams({"bq", "workbook"}, 1, 2)

PlainOps ==
    {"fetch_table_search_results", "fetch_user_search_results",
     "fetch_dashboard_search_results"}

InitFacade ==
    /\ pc = "call"
    /\ \/ /\ op \in PlainOps
          /\ args \in [query_term : {<<"q">>}, page_index : 0..1, index : {<<>>},
                       search_request : {NoRequest}]
          /\ stream \in FacadeStreams
       \/ /\ op = "fetch_search_results_with_filter"
          /\ args \in [query_term : {<<"q">>}, page_index : {0},
                       index : {S_table_index, S_dashboard_index},
                       search_request : SearchRequests]
          /\ stream \in {<<>>, << <<"bq">> >>, << <<"workbook">> >>}
    /\ page_size = 1
    /\ sent = <<>>
    /\ ret = NoRet
    /\ ProxyIdle

Finish(r) ==
    /\ sent' = Append(sent, r.query)
    /\ ret' = r.outcome
    /\ pc' = "done"
    /\ UNCHANGED <<op, args, page_size, stream>>
    /\ UNCHANGED proxyVars

FetchTableSearchResults ==
    /\ pc = "call"
    /\ op = "fetch_table_search_results"
    /\ Finish(fetch_table_search_results(args.query_term, args.page_index, stream, page_size))

FetchUserSearchResults ==
    /\ pc = "call"
    /\ op = "fetch_user_search_results"
    /\ Finish(fetch_user_search_results(args.query_term, args.page_index, stream, page_size))

FetchDashboardSearchResults ==
    /\ pc = "call"
    /\ op = "fetch_dashboard_search_results"
    /\ Finish(fetch_dashboard_search_results(args.query_term, args.page_index, stream, page_size))

FetchSearchResultsWithFilter ==
    /\ pc = "call"
    /\ op = "fetch_search_results_with_filter"
    /\ Finish(fetch_search_results_with_filter(args.query_term, args.search_request,
                                               args.page_index, args.index, stream, page_size))

NextFacade ==
    \/ FetchTableSearchResults
    \/ FetchUserSearchResults
    \/ FetchDashboardSearchResults
    \/ FetchSearchResultsWithFilter

SpecFacade == InitFacade /\ [][NextFacade]_vars

(***************************************************************************)
(* get_proxy_client: one step per read or write of the shared global and   *)
(* per lock operation; the interpreter makes each of them atomic           *)
(***************************************************************************)

\* truth value of _proxy_client: None is false, a client object is true
Truth(c) == c.set

\* a lock that excludes nobody
CanAcquireAlways(t) == TRUE

\* entering 'with _proxy_client_lock' blocks while another thread holds the lock
CanAcquire(t) == lock = NoThread

InitProxy ==
    /\ SearchIdle
    /\ ProxyIdle

CallGetProxyClient(t) ==
    /\ tpc[t] = "idle"
    /\ calls[t] < MaxCalls
    /\ calls' = [calls EXCEPT ![t] = @ + 1]
    /\ tpc' = [tpc EXCEPT ![t] = "check1"]
    /\ UNCHANGED <<_proxy_client, lock, tret, constructed>>
    /\ UNCHANGED searchVars

\* line 25
FirstCheck(t) ==
    /\ tpc[t] = "check1"
    /\ tpc' = [tpc EXCEPT ![t] = IF Truth(_proxy_client) THEN "return1" ELSE "acquire"]
    /\ UNCHANGED <<_proxy_client, lock, tret, calls, constructed>>
    /\ UNCHANGED searchVars

\* line 26
FirstReturn(t) ==
    /\ tpc[t] = "return1"
    /\ tret' = [tret EXCEPT ![t] = [status |-> "returned", value |-> _proxy_client]]
    /\ tpc' = [tpc EXCEPT ![t] = "idle"]
    /\ UNCHANGED <<_proxy_client, lock, calls, constructed>>
    /\ UNCHANGED searchVars

\* line 28
AcquireLock(t) ==
    /\ tpc[t] = "acquire"
    /\ CanAcquire(t)
    /\ lock' = t
    /\ tpc' = [tpc EXCEPT ![t] = "check2"]
    /\ UNCHANGED <<_proxy_client, tret, calls, constructed>>
    /\ UNCHANGED searchVars

\* line 29
SecondCheck(t) ==
    /\ tpc[t] = "check2"
    /\ tpc' = [tpc EXCEPT ![t] = IF Truth(_proxy_client) THEN "return2" ELSE "construct"]
    /\ UNCHANGED <<_proxy_client, lock, tret, calls, constructed>>
    /\ UNCHANGED searchVars

\* line 30: the return leaves the with block, which releases the lock
SecondReturn(t) ==
    /\ tpc[t] = "return2"
    /\ tret' = [tret EXCEPT ![t] = [status |-> "returned", value |-> _proxy_client]]
    /\ lock' = NoThread
    /\ tpc' = [tpc EXCEPT ![t] = "idle"]
    /\ UNCHANGED <<_proxy_client, calls, constructed>>
    /\ UNCHANGED searchVars

\* lines 32-48: the configuration is read and the client built and stored
Construct(t) ==
    /\ tpc[t] = "construct"
    /\ constructed' = constructed + 1
    /\ _proxy_client' = [set |-> TRUE, id |-> constructed + 1]
    /\ tpc' = [tpc EXCEPT ![t] = "release"]
    /\ UNCHANGED <<lock, tret, calls>>
    /\ UNCHANGED searchVars

\* lines 32-48 raising (a missing configuration key, import_string or the
\* client's constructor): the with block releases the lock, nothing is stored
ConstructRaises(t) ==
    /\ tpc[t] = "construct"
    /\ lock' = NoThread
    /\ tret' = [tret EXCEPT ![t] = [status |-> "raised", value |-> NoClient]]
    /\ tpc' = [tpc EXCEPT ![t] = "idle"]
    /\ UNCHANGED <<_proxy_client, calls, constructed>>
    /\ UNCHANGED searchVars

\* the end of the with block
ReleaseLock(t) ==
    /\ tpc[t] = "release"
    /\ lock' = NoThread
    /\ tpc' = [tpc EXCEPT ![t] = "return3"]
    /\ UNCHANGED <<_proxy_client, tret, calls, constructed>>
    /\ UNCHANGED searchVars

\* line 50
FinalReturn(t) ==
    /\ tpc[t] = "return3"
    /\ tret' = [tret EXCEPT ![t] = [status |-> "returned", value |-> _proxy_client]]
    /\ tpc' = [tpc EXCEPT ![t] = "idle"]
    /\ UNCHANGED <<_proxy_client, lock, calls, constructed>>
    /\ UNCHANGED searchVars

NextProxy ==
    \/ \E t \in Threads : CallGetProxyClient(t)
    \/ \E t \in Threads : FirstCheck(t)
    \/ \E t \in Threads : FirstReturn(t)
    \/ \E t \in Threads : AcquireLock(t)
    \/ \E t \in Threads : SecondCheck(t)
    \/ \E t \in Threads : SecondReturn(t)
    \/ \E t \in Threads : Construct(t)
    \/ \E t \in Threads : ConstructRaises(t)
    \/ \E t \in Threads : ReleaseLock(t)
    \/ \E t \in Threads : FinalReturn(t)

SpecProxy == InitProxy /\ [][NextProxy]_vars

(***************************************************************************)
(* Properties                                                              *)
(***************************************************************************)

Done(o) == pc = "done" /\ op = o
NPages == Len(stream)
TheQuery == sent[1]

RECURSIVE SumSizes(_, _)
\* entries in the first n pages
SumSizes(pages, n) == IF n = 0 THEN 0 ELSE Len(pages[n]) + SumSizes(pages, n - 1)

Abs(x) == IF x < 0 THEN -x ELSE x

InRange == NPages >= 1 /\ args.page_index < NPages
RequestedPage == stream[args.page_index + 1]
Normalized(kind) == [k \in 1..Len(RequestedPage) |-> _process_resource(Catalog[RequestedPage[k]], kind)]
Rejects(kind) == \E k \in 1..Len(RequestedPage) : Normalized(kind)[k].status = "raised"

\* every page before the last is full, as a paged service fills them
FullBeforeLast == \A p \in 1..(NPages - 1) : Len(stream[p]) = page_size

\* C1 as stated: for a page_index within range, the entries returned are as
\* many as the page at page_index holds, and total_count is within page_size
\* of the number of entries in the pages up to and including that page.
\* (Stated here for the calls that return, on streams whose pages before the
\* last are full.)
C1_AsStated ==
    (Done("_basic_search") /\ InRange /\ ret.status = "returned" /\ FullBeforeLast)
        => /\ Len(ret.value.entries) = Len(RequestedPage)
           /\ Abs(ret.value.total_count - SumSizes(stream, args.page_index + 1)) <= page_size

\* C1 amended: for a page_index within range the call either raises, exactly
\* when the normalizer rejects an entry of the requested page, or returns as
\* many entries as that page holds and total_count = page_size * (N - 1) + sN,
\* which is within page_size of page_size * N: every page of the stream is
\* counted, not only those up to page_index.
C1_Pagination ==
    (Done("_basic_search") /\ InRange)
        => /\ ret.status \in {"returned", "raised"}
           /\ ret.status = "raised" <=> Rejects(args.entry_type)
           /\ ret.status = "returned" =>
                /\ Len(ret.value.entries) = Len(RequestedPage)
                /\ ret.value.total_count = page_size * (NPages - 1) + Len(stream[NPages])
                /\ Abs(ret.value.total_count - page_size * NPages) <= page_size

C1_Witness ==
    /\ Done("_basic_search") /\ InRange /\ ret.status = "returned"
    /\ NPages = 3 /\ args.page_index = 0
    /\ Len(ret.value.entries) = 2
    /\ Len(stream[2]) = 1 /\ Len(stream[3]) = 1
    /\ ret.value.total_count = 5

LabelItems(d) ==
    {i \in 1..Len(d) : d[i].field = S_label /\ d[i].values.kind = "str"
                          /\ Len(Split(d[i].values.v, ":")) >= 3}
WithoutLabel(d) == SelectSeq(d, LAMBDA it : it.field # S_label)

\* C2: a label value of three or more ':' tokens drops the label filter only:
\* the query sent is the one the same map without the label entry gives, so it
\* keeps every other filter's constraint and the 'type' constraint.
C2_LabelDroppedOnly ==
    (Done("_basic_search") /\ LabelItems(args.additional_filters) # {})
        => TheQuery = BuildQuery(args.query_term, args.entry_type,
                                 WithoutLabel(args.additional_filters))

ExpectedOp(field) == IF field \in {S_type, S_system} THEN <<"=">> ELSE <<":">>

RECURSIVE Join(_, _)
Join(ss, sepr) ==
    IF ss = <<>> THEN <<>>
    ELSE IF Len(ss) = 1 THEN ss[1]
    ELSE ss[1] \o sepr \o Join(Tail(ss), sepr)

\* the constraint the specification gives for one item of a filter map
ExpectedFragment(it) ==
    IF it.values.kind = "str"
    THEN S_AND \o it.field \o ExpectedOp(it.field) \o it.values.v
    ELSE IF it.values.v = <<>> THEN <<>>
    ELSE S_AND \o <<"(">>
            \o Join([k \in 1..Len(it.values.v) |->
                        it.field \o ExpectedOp(it.field) \o it.values.v[k]], S_OR)
            \o <<")">>

ExpectedQuery(term, entry_type, d) ==
    LET items == Append(d, [field |-> S_type, values |-> StrVal(entry_type)])
    IN  term \o Concat([i \in 1..Len(items) |-> ExpectedFragment(items[i])])

NoLabel(d) == \A i \in 1..Len(d) : d[i].field # S_label
AllScalar(d) == \A i \in 1..Len(d) : d[i].values.kind = "str"
SomeList(d) == \E i \in 1..Len(d) : d[i].values.kind = "list"

\* C3: a list-valued filter of n >= 1 strings contributes exactly
\* ' AND (field<op>v1 OR ... OR field<op>vn)', every value intact and no
\* trailing ' OR '; an empty list contributes nothing.
C3_ListDisjunction ==
    (Done("_basic_search") /\ NoLabel(args.additional_filters)
        /\ SomeList(args.additional_filters))
        => TheQuery = ExpectedQuery(args.query_term, args.entry_type, args.additional_filters)

\* C4: with scalar string values on non-label fields only, the query is the
\* term verbatim followed by ' AND field<op>value' for each field in insertion
\* order, 'type' included, <op> being '=' for 'type' and 'system' and ':'
\* for every other field, whatever the value.
C4_ScalarQuery ==
    (Done("_basic_search") /\ NoLabel(args.additional_filters)
        /\ AllScalar(args.additional_filters))
        => TheQuery = ExpectedQuery(args.query_term, args.entry_type, args.additional_filters)

C4_Witness ==
    /\ Done("_basic_search")
    /\ args.query_term = <<"a", " ", "O", "R">>
    /\ args.entry_type = S_table
    /\ args.additional_filters =
          << [field |-> S_system, values |-> StrVal(<<"b", "q">>)],
             [field |-> S_name, values |-> StrVal(<<"a", ":", "b">>)] >>
    /\ TheQuery = <<"a", " ", "O", "R">>
                    \o S_AND \o S_system \o <<"=", "b", "q">>
                    \o S_AND \o S_name \o <<":", "a", ":", "b">>
                    \o S_AND \o S_type \o <<"=">> \o S_table

TrueTotal == SumSizes(stream, NPages)
NoEmptyPage == \A p \in 1..NPages : stream[p] # <<>>

\* C8: with page_index at or past the number of pages, zero pages included,
\* the call returns normally with no entries and the running total corrected
\* by the size of the page iterated last.
C8_OutOfRangeReturns ==
    (Done("_basic_search") /\ args.page_index >= NPages)
        => /\ ret.status = "returned"
           /\ ret.value.entries = <<>>
           /\ NPages >= 1 =>
                ret.value.total_count
                    = page_size * NPages - (page_size - Len(stream[NPages]))

\* C9: for a stream of N >= 1 pages of at most page_size entries, total_count
\* is at least the number of entries in the whole stream, exceeds it by less
\* than page_size, and is at least the number of entries returned.
\* (Stated here for the calls that return, on streams without an empty page.)
C9_AccurateToOnePage ==
    (Done("_basic_search") /\ NPages >= 1 /\ ret.status = "returned" /\ NoEmptyPage)
        => /\ ret.value.total_count >= TrueTotal
           /\ ret.value.total_count - TrueTotal < page_size
           /\ ret.value.total_count >= Len(ret.value.entries)

LastOf(parts) == parts[Len(parts)]

\* C10: the table normalizer returns a table record for every combination of
\* user-specified and integrated system: database is the user-specified
\* system when set, 'bigquery' for integrated system 1, and name is the last
\* segment of the linked resource. (Stated for resource names with the
\* segments the normalizer indexes.)
C10_TableAlwaysNormalized ==
    (Done("_process_table_resource")
        /\ Len(Split(args.linked_resource, "/")) >= 3
        /\ Len(Split(args.relative_resource_name, "/")) >= 4)
        => /\ ret.status = "returned"
           /\ ret.value.name = LastOf(Split(args.linked_resource, "/"))
           /\ args.user_specified_system # <<>>
                => ret.value.database = args.user_specified_system
           /\ (args.user_specified_system = <<>> /\ args.integrated_system = 1)
                => ret.value.database = S_bigquery

(***************************************************************************)
(* Properties of the four search operations                                *)
(***************************************************************************)

Contains(s, t) == \E i \in 1..(Len(s) - Len(t) + 1) : StartsWithAt(s, i, t)

\* the query constrains the field: ' AND field' followed by an operator, the
\* '.' of a label name, or inside the '(' of a disjunction
Constrains(query, field) ==
    \/ \E c \in {":", "=", "."} : Contains(query, S_AND \o field \o <<c>>)
    \/ \E c \in {":", "="} : Contains(query, S_AND \o <<"(">> \o field \o <<c>>)

\* the translation table, the request's key for the name of a table being 'table'
Translation ==
    << [search |-> "table", gcp |-> S_name],
       [search |-> "description", gcp |-> S_description],
       [search |-> "column", gcp |-> S_column],
       [search |-> "tag", gcp |-> S_tag],
       [search |-> "database", gcp |-> S_system],
       [search |-> "badge", gcp |-> S_label] >>

Requested(key) ==
    /\ args.search_request.has_filters
    /\ key \in DOMAIN args.search_request.filters
    /\ args.search_request.filters[key].v # <<>>

\* C5: the filtered search constrains exactly the backend fields of the
\* request filters that are present and non-empty, and besides them only
\* 'type', with the part of the index before the first '_'.
C5_ForwardsPresentFilters ==
    Done("fetch_search_results_with_filter")
        => /\ \A i \in 1..Len(Translation) :
                Requested(Translation[i].search) <=> Constrains(TheQuery, Translation[i].gcp)
           /\ Contains(TheQuery, S_AND \o S_type \o <<"=">> \o Split(args.index, "_")[1])

OwnKind ==
    CASE op = "fetch_table_search_results" -> S_table
      [] op = "fetch_user_search_results" -> S_user
      [] op = "fetch_dashboard_search_results" -> S_workbook
      [] op = "fetch_search_results_with_filter" -> Split(args.index, "_")[1]

OwnContainer ==
    CASE OwnKind = S_table -> "SearchTableResult"
      [] OwnKind = S_user -> "SearchUserResult"
      [] OTHER -> "SearchDashboardResult"

\* the requested page holds only entries the kind's normalizer accepts; the
\* source has no normalizer for users, so nothing is asked of a user stream
Normalizable == OwnKind # S_user => ~Rejects(OwnKind)

\* C6: each search operation returns the result container of its own kind
\* with the total count and the normalized entries of the requested page;
\* the user search does so also when the requested page holds entries.
C6_OwnContainer ==
    (pc = "done" /\ InRange /\ Normalizable)
        => /\ ret.status = "returned"
           /\ ret.value.container = OwnContainer
           /\ Len(ret.value.results) = Len(RequestedPage)
           /\ OwnKind # S_user =>
                ret.value.results
                    = [k \in 1..Len(RequestedPage) |-> Normalized(OwnKind)[k].value]

(***************************************************************************)
(* Properties of get_proxy_client                                          *)
(***************************************************************************)

TheClient == [set |-> TRUE, id |-> 1]

\* C7: in every interleaving the proxy client is constructed at most once,
\* and every call that returns, returns that one instance: never None, never
\* a second client.
C7_Singleton ==
    /\ constructed <= 1
    /\ \A t \in Threads :
          tret[t].status = "returned"
              => tret[t].value = TheClient /\ tret[t].value = _proxy_client

\* two threads passed the first check before the client existed; one built
\* it and returned it, the other holds the lock and found it at the second check
C7_Witness ==
    \E t, u \in Threads :
        /\ t # u
        /\ tret[t] = [status |-> "returned", value |-> TheClient]
        /\ calls[t] = 1
        /\ tpc[u] = "return2"
        /\ calls[u] = 1
        /\ lock = u

====
